---- MODULE Spec2Model ----
(***************************************************************************)
(* Model of scripts/resolve-runtime-deps-from-metadata.py: the version     *)
(* range constraint engine, the two catalog resolvers and main().          *)
(*                                                                         *)
(* Python strings that the code takes apart (ranges, versions, file names) *)
(* are sequences of one-character strings; opaque strings (ids, labels)    *)
(* are TLA+ strings.                                                       *)
(***************************************************************************)
EXTENDS Integers, Sequences, FiniteSets, TLC

VARIABLES
    pc,           \* position of the running operation
    range_str,    \* constraint engine: the range string given to parse_constraints
    version,      \* constraint engine: the candidate version string
    constraints,  \* constraint engine: the parsed constraint list
    sat,          \* constraint engine: result of satisfies_constraints
    dep,          \* resolver call: the Dependency being resolved
    loader,       \* --loader
    policy,       \* --policy
    response,     \* resolver call: what http_get_json returned (or that it raised)
    result,       \* resolver call: the ResolvedDependency or the exception raised
    deps,         \* main: concatenated output of the three metadata readers
    strict,       \* --strict
    by_id,        \* main: the de-duplication dict, as a sequence in insertion order
    todo,         \* main: the dependencies the resolve loop has not visited yet
    resolved,     \* main: list of ResolvedDependency
    requests,     \* log of the catalog GET requests issued so far
    out_file,     \* content of the output document on disk
    exit_status   \* <<>> while running, <<n>> once the process exited with status n

vars == <<pc, range_str, version, constraints, sat, dep, loader, policy, response,
          result, deps, strict, by_id, todo, resolved, requests, out_file, exit_status>>

\* Python's None (also: a JSON value that is absent or of another type)
None == <<"None">>

(***************************************************************************)
(* Character-level string helpers (str.strip, startswith, in, f-strings)   *)
(***************************************************************************)
Digits == {"0", "1", "2", "3", "4", "5", "6", "7", "8", "9"}

DigitVal(c) ==
    CASE c = "0" -> 0 [] c = "1" -> 1 [] c = "2" -> 2 [] c = "3" -> 3 [] c = "4" -> 4
      [] c = "5" -> 5 [] c = "6" -> 6 [] c = "7" -> 7 [] c = "8" -> 8 [] c = "9" -> 9

DigitChar(d) ==
    CASE d = 0 -> "0" [] d = 1 -> "1" [] d = 2 -> "2" [] d = 3 -> "3" [] d = 4 -> "4"
      [] d = 5 -> "5" [] d = 6 -> "6" [] d = 7 -> "7" [] d = 8 -> "8" [] d = 9 -> "9"

IsSpace(c) == c = " "

RECURSIVE LStrip(_)
LStrip(s) == IF s # <<>> /\ IsSpace(Head(s)) THEN LStrip(Tail(s)) ELSE s

RECURSIVE RStrip(_)
RStrip(s) ==
    IF s # <<>> /\ IsSpace(s[Len(s)]) THEN RStrip(SubSeq(s, 1, Len(s) - 1)) ELSE s

Strip(s) == RStrip(LStrip(s))

StartsWith(s, p) == Len(s) >= Len(p) /\ SubSeq(s, 1, Len(p)) = p

Contains(s, needle) ==
    \E i \in 1..(Len(s) - Len(needle) + 1) : SubSeq(s, i, i + Len(needle) - 1) = needle

\* f"{n}": decimal text of a non-negative integer
RECURSIVE ToStr(_)
ToStr(n) == IF n < 10 THEN <<DigitChar(n)>> ELSE Append(ToStr(n \div 10), DigitChar(n % 10))

(***************************************************************************)
(* Version ordering                                                        *)
(***************************************************************************)
\* re.findall(r"\d+", s) with int() applied: the maximal digit runs, in order
RECURSIVE DigitRuns(_, _, _, _)
DigitRuns(s, cur, inRun, acc) ==
    IF s = <<>> THEN (IF inRun THEN Append(acc, cur) ELSE acc)
    ELSE IF Head(s) \in Digits
         THEN DigitRuns(Tail(s), (IF inRun THEN cur * 10 ELSE 0) + DigitVal(Head(s)), TRUE, acc)
         ELSE DigitRuns(Tail(s), 0, FALSE, IF inRun THEN Append(acc, cur) ELSE acc)

parse_version_key(version_str) ==
    LET nums == DigitRuns(version_str, 0, FALSE, <<>>)
    IN  IF nums = <<>> THEN <<0>> ELSE nums

\* Python's tuple comparison ka < kb
RECURSIVE TupleLess(_, _)
TupleLess(ka, kb) ==
    IF kb = <<>> THEN FALSE
    ELSE IF ka = <<>> THEN TRUE
    ELSE IF Head(ka) # Head(kb) THEN Head(ka) < Head(kb)
    ELSE TupleLess(Tail(ka), Tail(kb))

compare_versions(a, b) ==
    LET ka == parse_version_key(a)
        kb == parse_version_key(b)
    IN  IF TupleLess(ka, kb) THEN -1
        ELSE IF TupleLess(kb, ka) THEN 1
        ELSE 0

(***************************************************************************)
(* Constraint parsing                                                      *)
(***************************************************************************)
Constraint(op, v) == [op |-> op, version |-> v]

Dot == <<".">>

\* mutant: the caret bound ignores the zero-major case
expand_semver_compat_NoZeroMajor(op, v) ==
    LET key == parse_version_key(v)
        major == IF Len(key) > 0 THEN key[1] ELSE 0
        minor == IF Len(key) > 1 THEN key[2] ELSE 0
        upper == IF op = "~"
                 THEN ToStr(major) \o Dot \o ToStr(minor + 1) \o Dot \o <<"0">>
                 ELSE ToStr(major + 1) \o Dot \o <<"0">> \o Dot \o <<"0">>
    IN  <<Constraint(">=", v), Constraint("<", upper)>>

expand_semver_compat(op, v) ==
    LET key == parse_version_key(v)
        major == IF Len(key) > 0 THEN key[1] ELSE 0
        minor == IF Len(key) > 1 THEN key[2] ELSE 0
        upper == IF op = "~"
                 THEN ToStr(major) \o Dot \o ToStr(minor + 1) \o Dot \o <<"0">>
                 ELSE IF major # 0
                      THEN ToStr(major + 1) \o Dot \o <<"0">> \o Dot \o <<"0">>
                      ELSE <<"0">> \o Dot \o ToStr(minor + 1) \o Dot \o <<"0">>
    IN  <<Constraint(">=", v), Constraint("<", upper)>>

\* index of the first "," of s (0 if none): s.split(",", 1)
FirstComma(s) ==
    IF \E i \in 1..Len(s) : s[i] = ","
    THEN CHOOSE i \in 1..Len(s) : s[i] = "," /\ \A j \in 1..(i - 1) : s[j] # ","
    ELSE 0

\* mutant: the closing bracket's inclusiveness is read from the opening bracket
ParseInterval_ClosingFromOpening(s) ==
    LET left_inclusive == Head(s) = "["
        inner == SubSeq(s, 2, Len(s) - 1)
        k == FirstComma(inner)
        lo == Strip(SubSeq(inner, 1, k - 1))
        hi == Strip(SubSeq(inner, k + 1, Len(inner)))
        lower == IF lo # <<>>
                 THEN <<Constraint(IF left_inclusive THEN ">=" ELSE ">", lo)>>
                 ELSE <<>>
        upper == IF hi # <<>>
                 THEN <<Constraint(IF left_inclusive THEN "<=" ELSE "<", hi)>>
                 ELSE <<>>
    IN  lower \o upper

\* the Maven interval branch of parse_constraints
ParseInterval(s) ==
    LET left_inclusive == Head(s) = "["
        right_inclusive == s[Len(s)] = "]"
        inner == SubSeq(s, 2, Len(s) - 1)
        k == FirstComma(inner)
        lo == Strip(SubSeq(inner, 1, k - 1))
        hi == Strip(SubSeq(inner, k + 1, Len(inner)))
        lower == IF lo # <<>>
                 THEN <<Constraint(IF left_inclusive THEN ">=" ELSE ">", lo)>>
                 ELSE <<>>
        upper == IF hi # <<>>
                 THEN <<Constraint(IF right_inclusive THEN "<=" ELSE "<", hi)>>
                 ELSE <<>>
    IN  lower \o upper

\* re.split(r"\s+|\s*,\s*", s): the parts, empty ones included
RECURSIVE SplitParts(_, _, _)
SplitParts(s, cur, acc) ==
    IF s = <<>> THEN Append(acc, cur)
    ELSE IF IsSpace(Head(s)) THEN SplitParts(LStrip(s), <<>>, Append(acc, cur))
    ELSE IF Head(s) = "," THEN SplitParts(LStrip(Tail(s)), <<>>, Append(acc, cur))
    ELSE SplitParts(Tail(s), Append(cur, Head(s)), acc)

\* the alternatives of (>=|<=|>|<|=) in the order the regex tries them
ComparatorAlternatives == << <<">", "=">>, <<"<", "=">>, <<">">>, <<"<">>, <<"=">> >>

OpName(o) == IF Len(o) = 2 THEN (IF o[1] = ">" THEN ">=" ELSE "<=") ELSE o[1]

\* re.match(r"^(>=|<=|>|<|=)?\s*(.+)$", part) on a non-empty part: the first
\* alternative that leaves at least one character for (.+), else no comparator
MatchToken(part) ==
    LET fits(i) == StartsWith(part, ComparatorAlternatives[i])
                   /\ Len(part) > Len(ComparatorAlternatives[i])
    IN  IF \E i \in 1..5 : fits(i)
        THEN LET i == CHOOSE i \in 1..5 : fits(i) /\ \A j \in 1..(i - 1) : ~fits(j)
                 o == ComparatorAlternatives[i]
             IN  [op |-> OpName(o),
                  version |-> Strip(LStrip(SubSeq(part, Len(o) + 1, Len(part))))]
        ELSE [op |-> "=", version |-> Strip(part)]

RECURSIVE ParseTokens(_)
ParseTokens(parts) ==
    IF parts = <<>> THEN <<>>
    ELSE LET part == Head(parts)
             rest == ParseTokens(Tail(parts))
         IN  IF part = <<>> THEN rest
             ELSE LET m == MatchToken(part)
                  IN  IF m.version # <<>>
                      THEN <<Constraint(m.op, m.version)>> \o rest
                      ELSE rest

parse_constraints(rs) ==
    LET s == Strip(rs)
    IN  IF s = <<>> \/ s = <<"*">> THEN <<>>
        ELSE IF Head(s) \in {"[", "("} /\ s[Len(s)] \in {"]", ")"}
                /\ \E i \in 1..Len(s) : s[i] = ","
             THEN ParseInterval(s)
        ELSE IF Head(s) = "^" THEN expand_semver_compat("^", Strip(Tail(s)))
        ELSE IF Head(s) = "~" THEN expand_semver_compat("~", Strip(Tail(s)))
        ELSE ParseTokens(SplitParts(s, <<>>, <<>>))

(***************************************************************************)
(* Constraint satisfaction                                                 *)
(***************************************************************************)
ConstraintHolds(v, c) ==
    LET cmp_val == compare_versions(v, c.version)
    IN  CASE c.op = ">"  -> cmp_val > 0
          [] c.op = ">=" -> cmp_val >= 0
          [] c.op = "<"  -> cmp_val < 0
          [] c.op = "<=" -> cmp_val <= 0
          [] c.op = "="  -> cmp_val = 0
          [] OTHER       -> FALSE

satisfies_constraints(v, cs) == \A i \in 1..Len(cs) : ConstraintHolds(v, cs[i])

(***************************************************************************)
(* Catalog data                                                            *)
(***************************************************************************)
\* if x: for an Optional[str]
Truthy(x) == x # None /\ x # <<>>

Dependency(mod_id, version_range, modrinth, curseforge) ==
    [mod_id |-> mod_id, version_range |-> version_range, modrinth |-> modrinth,
     curseforge |-> curseforge]

ResolvedDependency(source_type, name, modrinth_id, modrinth_version, curseforge_id, curseforge_file_id) ==
    [source_type |-> source_type, name |-> name, modrinth_id |-> modrinth_id,
     modrinth_version |-> modrinth_version, curseforge_id |-> curseforge_id,
     curseforge_file_id |-> curseforge_file_id]

Returned(value) == [status |-> "ok", value |-> value]

Raised(error) == [status |-> "raise", error |-> error]

\* datetime.min, the instant every valid timestamp is at or after
DatetimeMin == 0

\* published_dt / file_dt: a timestamp text is absent (not a string), unparseable
\* (fromisoformat raises ValueError), or ISO-8601 without or with a UTC offset;
\* fromisoformat gives a naive datetime for the first and an aware one for the second
published_dt(value) ==
    IF value.kind \in {"naive", "aware"}
    THEN [aware |-> value.kind = "aware", t |-> value.t]
    ELSE [aware |-> FALSE, t |-> DatetimeMin]

\* list.sort(key=...) compares keys with <, which raises TypeError between a naive
\* and an aware datetime; a sort of a list holding both kinds compares such a pair
SortRaises(keys) == \E i \in 1..Len(keys), j \in 1..Len(keys) : keys[i].aware # keys[j].aware

\* the stable ascending sort of list.sort: position of item i in the sorted list
SortedPosition(keys, i) ==
    1 + Cardinality({j \in 1..Len(keys) : keys[j].t < keys[i].t \/ (keys[j].t = keys[i].t /\ j < i)})

StableSort(items, keys) ==
    [p \in 1..Len(items) |-> items[CHOOSE i \in 1..Len(items) : SortedPosition(keys, i) = p]]

\* mutant: the policy is ignored
PickByPolicy_AlwaysFirst(sorted, pol) == sorted[1]

\* candidates[0] if policy == "min" else candidates[-1]
PickByPolicy(sorted, pol) == IF pol = "min" THEN sorted[1] ELSE sorted[Len(sorted)]

DateKeys(items, field) == [i \in 1..Len(items) |-> published_dt(items[i][field])]

(***************************************************************************)
(* resolve_modrinth                                                        *)
(***************************************************************************)
ModrinthCandidate(v, cs) ==
    /\ v.is_dict
    /\ v.version_number # None
    /\ v.version_number # <<>>
    /\ (cs = <<>> \/ satisfies_constraints(v.version_number, cs))

ModrinthCandidates(versions, cs) == SelectSeq(versions, LAMBDA v : ModrinthCandidate(v, cs))

resolve_modrinth(d, ldr, minecraft_version, pol, resp) ==
    IF resp.http # "ok" THEN Raised([kind |-> "HttpError"])
    ELSE IF ~resp.is_list THEN Raised([kind |-> "UnexpectedModrinthResponse", alias |-> d.modrinth])
    ELSE LET cs == parse_constraints(d.version_range)
             candidates == ModrinthCandidates(resp.items, cs)
             keys == DateKeys(candidates, "date_published")
         IN  IF candidates = <<>>
             THEN Raised([kind |-> "NoModrinthVersions", mod_id |-> d.mod_id, alias |-> d.modrinth,
                          version_range |-> d.version_range, loader |-> ldr,
                          mc |-> minecraft_version])
             ELSE IF SortRaises(keys) THEN Raised([kind |-> "TypeError"])
             ELSE LET chosen == PickByPolicy(StableSort(candidates, keys), pol)
                  IN  Returned(ResolvedDependency("modrinth", d.mod_id, d.modrinth,
                                                  chosen.version_number, None, None))

(***************************************************************************)
(* resolve_curseforge                                                      *)
(***************************************************************************)
curseforge_expected_loader_label(ldr) ==
    CASE ldr = "forge" -> "Forge" [] ldr = "neoforge" -> "NeoForge" [] ldr = "fabric" -> "Fabric"

\* re.fullmatch(r"\d+", alias)
IsNumericProjectId(alias) == alias # <<>> /\ \A i \in 1..Len(alias) : alias[i] \in Digits

\* mutant: the loader label is not required
CurseforgeCompatible_NoLabel(item, label, minecraft_version) ==
    /\ item.is_dict
    /\ item.gameVersions.is_list
    /\ minecraft_version \in item.gameVersions.labels

CurseforgeCompatible(item, label, minecraft_version) ==
    /\ item.is_dict
    /\ item.gameVersions.is_list
    /\ minecraft_version \in item.gameVersions.labels
    /\ label \in item.gameVersions.labels

\* str(item.get("fileName") or "")
TextOrEmpty(x) == IF x = None THEN <<>> ELSE x

NameContains(item, needle) ==
    Contains(TextOrEmpty(item.fileName), needle) \/ Contains(TextOrEmpty(item.displayName), needle)

\* mutant: any single constraint counts as an exact range
IsExactRange_AnySingle(cs) == Len(cs) = 1

IsExactRange(cs) == cs # <<>> /\ (\A i \in 1..Len(cs) : cs[i].op = "=") /\ Len(cs) = 1

\* resolve_curseforge from the response on: the caller has checked the alias
CurseforgeFromResponse(d, ldr, minecraft_version, pol, resp) ==
    IF resp.http # "ok" THEN Raised([kind |-> "HttpError"])
    ELSE IF ~resp.is_list THEN Raised([kind |-> "UnexpectedCurseforgeResponse", alias |-> d.curseforge])
    ELSE LET label == curseforge_expected_loader_label(ldr)
             filtered == SelectSeq(resp.items, LAMBDA f : CurseforgeCompatible(f, label, minecraft_version))
             cs == parse_constraints(Strip(d.version_range))
             narrowed == IF IsExactRange(cs)
                         THEN SelectSeq(filtered, LAMBDA f : NameContains(f, cs[1].version))
                         ELSE filtered
             keys == DateKeys(narrowed, "fileDate")
         IN  IF filtered = <<>>
             THEN Raised([kind |-> "NoCurseforgeFiles", mod_id |-> d.mod_id, alias |-> d.curseforge,
                          loader |-> label, mc |-> minecraft_version])
             ELSE IF narrowed = <<>>
             THEN Raised([kind |-> "ExactRangeNotInNames", mod_id |-> d.mod_id,
                          version_range |-> d.version_range])
             ELSE IF SortRaises(keys) THEN Raised([kind |-> "TypeError"])
             ELSE LET chosen == PickByPolicy(StableSort(narrowed, keys), pol)
                  IN  IF ~chosen.id_is_int
                      THEN Raised([kind |-> "MissingFileId", alias |-> d.curseforge])
                      ELSE Returned(ResolvedDependency("curseforge", d.mod_id, None, None,
                                                       d.curseforge, ToStr(chosen.id)))

resolve_curseforge(d, ldr, minecraft_version, pol, resp) ==
    IF ~IsNumericProjectId(d.curseforge)
    THEN Raised([kind |-> "NonNumericAlias", mod_id |-> d.mod_id, alias |-> d.curseforge])
    ELSE CurseforgeFromResponse(d, ldr, minecraft_version, pol, resp)

\* mutant: the request is sent before the alias is checked
CurseforgeSendsRequest_Always(d) == TRUE

\* whether resolve_curseforge reaches its http_get_json call
CurseforgeSendsRequest(d) == IsNumericProjectId(d.curseforge)

(***************************************************************************)
(* write_dependencies_yml: the lines of the document, each line a literal  *)
(* text followed by the value formatted into it                            *)
(***************************************************************************)
DocumentHeader ==
    << <<"version: \"1.0\"">>, <<"settings:">>, <<"  auto_resolve_latest: false">>, <<"">>,
       <<"dependencies:">>, <<"  runtime:">> >>

\* json.dumps of a string without characters that need escaping
JsonString(s) == <<"\"">> \o s \o <<"\"">>

EntryLines(r) ==
    << <<"    - name: ", r.name>> >> \o
    (IF r.source_type = "modrinth"
     THEN << <<"      identifiers:">>, <<"        modrinth_id: ", r.modrinth_id>>,
             <<"      version:">>, <<"        default: ", JsonString(r.modrinth_version)>>,
             <<"      source:">>, <<"        type: modrinth">> >>
     ELSE << <<"      identifiers:">>, <<"        curseforge_id: ", r.curseforge_id>>,
             <<"        curseforge_file_id: ", r.curseforge_file_id>>,
             <<"      source:">>, <<"        type: curseforge">> >>)

RECURSIVE AllEntryLines(_)
AllEntryLines(rs) == IF rs = <<>> THEN <<>> ELSE EntryLines(Head(rs)) \o AllEntryLines(Tail(rs))

write_dependencies_yml(rs) ==
    IF rs = <<>> THEN DocumentHeader \o << <<"    []">> >>
    ELSE DocumentHeader \o AllEntryLines(rs)

(***************************************************************************)
(* main: de-duplication, resolve loop                                      *)
(***************************************************************************)
\* int(x.modrinth is not None) + int(x.curseforge is not None)
Score(d) == (IF d.modrinth # None THEN 1 ELSE 0) + (IF d.curseforge # None THEN 1 ELSE 0)

\* mutant: a later record of equal score replaces the incumbent
Replaces_OnTie(new, existing) == Score(new) >= Score(existing)

\* score_new > score_existing
Replaces(new, existing) == Score(new) > Score(existing)

IndexOfId(acc, mod_id) ==
    IF \E i \in 1..Len(acc) : acc[i].mod_id = mod_id
    THEN CHOOSE i \in 1..Len(acc) : acc[i].mod_id = mod_id
    ELSE 0

\* the loop over deps that fills by_id (a dict keeps insertion order)
RECURSIVE Dedup(_, _)
Dedup(ds, acc) ==
    IF ds = <<>> THEN acc
    ELSE LET d == Head(ds)
             k == IndexOfId(acc, d.mod_id)
         IN  IF k = 0 THEN Dedup(Tail(ds), Append(acc, d))
             ELSE IF Replaces(d, acc[k]) THEN Dedup(Tail(ds), [acc EXCEPT ![k] = d])
             ELSE Dedup(Tail(ds), acc)

\* ord() of the characters the ids use
CodePoint(c) == CASE c = "A" -> 65 [] c = "B" -> 66 [] c = "a" -> 97 [] c = "b" -> 98

\* Python's str comparison a < b
StrLess(a, b) == TupleLess([i \in 1..Len(a) |-> CodePoint(a[i])], [i \in 1..Len(b) |-> CodePoint(b[i])])

\* sorted(required_deps, key=lambda d: d.mod_id)
SortById(ds) ==
    LET before(j, i) == StrLess(ds[j].mod_id, ds[i].mod_id) \/ (ds[j].mod_id = ds[i].mod_id /\ j < i)
        position(i) == 1 + Cardinality({j \in 1..Len(ds) : before(j, i)})
    IN  [p \in 1..Len(ds) |-> ds[CHOOSE i \in 1..Len(ds) : position(i) = p]]

\* mutant: Catalog B is preferred
CatalogFor_CurseforgeFirst(d) ==
    IF Truthy(d.curseforge) THEN "curseforge"
    ELSE IF Truthy(d.modrinth) THEN "modrinth"
    ELSE "none"

\* the branch of the resolve loop a dependency takes
CatalogFor(d) ==
    IF Truthy(d.modrinth) THEN "modrinth"
    ELSE IF Truthy(d.curseforge) THEN "curseforge"
    ELSE "none"

\* mutant: the loop swallows a resolver's exception and goes on
Aborts_Swallowed(r) == FALSE

\* an exception of a resolver is not caught in the loop: it leaves main and
\* reaches the handler under __main__
Aborts(r) == r.status = "raise"

\* SystemExit(2) of the handler under __main__
ExitOnError == <<2>>

\* SystemExit(main()) after main returned 0
ExitOk == <<0>>

(***************************************************************************)
(* Values shared by the specifications                                     *)
(***************************************************************************)
NoDependency == [mod_id |-> None, version_range |-> <<>>, modrinth |-> None, curseforge |-> None]

NoResult == [status |-> "none"]

\* the output path holds no file / holds a file with these lines
NoFile == [exists |-> FALSE, lines |-> <<>>]

File(lines) == [exists |-> TRUE, lines |-> lines]

\* the state of the variables an operation does not use
EngineIdle ==
    /\ range_str = <<>> /\ version = <<>> /\ constraints = <<>> /\ sat = None

CallIdle ==
    /\ dep = NoDependency /\ response = [http |-> "none", is_list |-> FALSE, items |-> <<>>] /\ result = NoResult

MainIdle ==
    /\ deps = <<>> /\ strict = FALSE /\ by_id = <<>> /\ todo = <<>> /\ resolved = <<>>
    /\ requests = <<>> /\ out_file = NoFile /\ exit_status = <<>>

(***************************************************************************)
(* Specification SpecEngine: parse_constraints, then satisfies_constraints *)
(* on one range string and one candidate version                           *)
(***************************************************************************)
MaxSeg == 1

\* numeric segments tried for x, y, z; 9 makes x+1 and y+1 gain a digit
SegValues == (0..MaxSeg) \cup {9}

Fmt(x, y, z) == ToStr(x) \o Dot \o ToStr(y) \o Dot \o ToStr(z)

SemverRanges == {<<op>> \o Fmt(x, y, z) : op \in {"^", "~"}, x \in SegValues, y \in SegValues, z \in SegValues}

IntervalBounds == {<<>>, <<"1", ".", "0">>, <<"2", ".", "0">>, <<" ", "2", ".", "0", " ">>}

Interval(open, lo, hi, close) == <<open>> \o lo \o <<",">> \o hi \o <<close>>

IntervalRanges ==
    {Interval(open, lo, hi, close) : open \in {"[", "("}, lo \in IntervalBounds, hi \in IntervalBounds, close \in {"]", ")"}}

ComparatorRanges ==
    { <<"*">>, <<>>, <<" ">>,
      <<"1", ".", "0", ".", "0">>,
      <<">", "=", "1", ".", "0", ".", "0">>,
      <<">", "=", "1", ".", "0", ".", "0", ",", "<", "2", ".", "0", ".", "0">>,
      <<">", "=", " ", "1", ".", "0", ".", "0">>,
      <<"<", "=", "1", ".", "0", ".", "0", " ", ",", " ", ">", "0", ".", "9">>,
      <<">", "=">>, <<"=">>, <<"<">>, <<",">>, <<"=", "1", ".", "0", ",", ",", ">">> }

EngineRanges == SemverRanges \cup IntervalRanges \cup ComparatorRanges

EngineVersions ==
    {Fmt(a, b, c) : a \in SegValues \cup {v + 1 : v \in SegValues},
                    b \in SegValues \cup {v + 1 : v \in SegValues},
                    c \in SegValues \cup {v + 1 : v \in SegValues}}
    \cup { <<"1", ".", "0">>, <<"2", ".", "0">>, <<"1", ".", "9", ".", "9">>, <<"b", "e", "t", "a">>, <<>> }

EngineInit ==
    /\ pc = "engine_start"
    /\ range_str \in EngineRanges
    /\ version \in EngineVersions
    /\ constraints = <<>>
    /\ sat = None
    /\ loader = None /\ policy = None
    /\ CallIdle /\ MainIdle

EngineParse ==
    /\ pc = "engine_start"
    /\ constraints' = parse_constraints(range_str)
    /\ pc' = "engine_parsed"
    /\ UNCHANGED <<range_str, version, sat, dep, loader, policy, response, result, deps,
                   strict, by_id, todo, resolved, requests, out_file, exit_status>>

EngineSatisfies ==
    /\ pc = "engine_parsed"
    /\ sat' = satisfies_constraints(version, constraints)
    /\ pc' = "engine_done"
    /\ UNCHANGED <<range_str, version, constraints, dep, loader, policy, response, result,
                   deps, strict, by_id, todo, resolved, requests, out_file, exit_status>>

EngineNext == EngineParse \/ EngineSatisfies

SpecEngine == EngineInit /\ [][EngineNext]_vars

(***************************************************************************)
(* C8: for numeric x, y, z, "^x.y.z" and "~x.y.z" parse to exactly         *)
(* [>= x.y.z, < upper], upper being (x+1).0.0 for caret with x # 0,        *)
(* 0.(y+1).0 for caret with x = 0 and x.(y+1).0 for tilde; x.y.z and       *)
(* x.y.(z+1) satisfy the parsed constraints, the upper bound version       *)
(* ((x+1).0.0 for caret with x # 0, x.(y+1).0 for tilde) does not.         *)
(***************************************************************************)
C8_Upper(op, x, y) ==
    IF op = "~" THEN Fmt(x, y + 1, 0)
    ELSE IF x # 0 THEN Fmt(x + 1, 0, 0) ELSE Fmt(0, y + 1, 0)

C8_SemverExpansion ==
    \A op \in {"^", "~"}, x \in SegValues, y \in SegValues, z \in SegValues :
        (pc # "engine_start" /\ range_str = <<op>> \o Fmt(x, y, z)) =>
            /\ constraints = << [op |-> ">=", version |-> Fmt(x, y, z)],
                                [op |-> "<", version |-> C8_Upper(op, x, y)] >>
            /\ (pc = "engine_done" /\ version \in {Fmt(x, y, z), Fmt(x, y, z + 1)}) => sat = TRUE
            /\ (pc = "engine_done" /\ (op = "~" \/ x # 0) /\ version = C8_Upper(op, x, y)) => sat = FALSE

C8_Witness ==
    /\ pc = "engine_done"
    /\ range_str = <<"^">> \o Fmt(9, 9, 9)
    /\ version = Fmt(10, 0, 0)
    /\ sat = FALSE

(***************************************************************************)
(* C9: a bracketed interval parses to at most two constraints: the lower   *)
(* bound with >= after "[" and > after "(", the upper bound with <= before *)
(* "]" and < before ")", none for an omitted bound; a version satisfies    *)
(* the interval exactly when it passes both bounds under the numeric       *)
(* segment ordering ([1.0,2.0): 1.9.9 satisfies, 2.0.0 does not).          *)
(***************************************************************************)
C9_Before(a, b) == TupleLess(parse_version_key(a), parse_version_key(b))

C9_LowerOk(open, lo, v) ==
    \/ Strip(lo) = <<>>
    \/ IF open = "[" THEN ~C9_Before(v, lo) ELSE C9_Before(lo, v)

C9_UpperOk(close, hi, v) ==
    \/ Strip(hi) = <<>>
    \/ IF close = "]" THEN ~C9_Before(hi, v) ELSE C9_Before(v, hi)

C9_Expected(open, lo, hi, close) ==
    (IF Strip(lo) = <<>> THEN <<>>
     ELSE << [op |-> IF open = "[" THEN ">=" ELSE ">", version |-> Strip(lo)] >>)
    \o
    (IF Strip(hi) = <<>> THEN <<>>
     ELSE << [op |-> IF close = "]" THEN "<=" ELSE "<", version |-> Strip(hi)] >>)

C9_Interval ==
    /\ \A open \in {"[", "("}, close \in {"]", ")"}, lo \in IntervalBounds, hi \in IntervalBounds :
        (pc # "engine_start" /\ range_str = Interval(open, lo, hi, close)) =>
            /\ Len(constraints) <= 2
            /\ constraints = C9_Expected(open, lo, hi, close)
            /\ pc = "engine_done" =>
                   (sat <=> (C9_LowerOk(open, lo, version) /\ C9_UpperOk(close, hi, version)))
    /\ (/\ pc = "engine_done"
        /\ range_str = <<"[", "1", ".", "0", ",", "2", ".", "0", ")">>) =>
            /\ version = <<"1", ".", "9", ".", "9">> => sat = TRUE
            /\ version = <<"2", ".", "0", ".", "0">> => sat = FALSE

C9_Witness ==
    /\ pc = "engine_done"
    /\ range_str = <<"[", "1", ".", "0", ",", "2", ".", "0", ")">>
    /\ version = <<"2", ".", "0", ".", "0">>
    /\ constraints = << [op |-> ">=", version |-> <<"1", ".", "0">>],
                        [op |-> "<", version |-> <<"2", ".", "0">>] >>
    /\ sat = FALSE

(***************************************************************************)
(* Specification SpecResolve: one call of resolve_modrinth or of           *)
(* resolve_curseforge on a catalog response                                *)
(***************************************************************************)
MaxVersions == 2

MaxFiles == 2

MinecraftVersion == "1.20.1"

Loaders == {"forge", "neoforge", "fabric"}

Policies == {"min", "max"}

V100 == <<"1", ".", "0", ".", "0">>

V110 == <<"1", ".", "1", ".", "0">>

Absent == [kind |-> "absent", t |-> 0]

Unparseable == [kind |-> "unparseable", t |-> 0]

Naive(t) == [kind |-> "naive", t |-> t]

Aware(t) == [kind |-> "aware", t |-> t]

NoResponse == [http |-> "none", is_list |-> FALSE, items |-> <<>>]

HttpFailure == [http |-> "error", is_list |-> FALSE, items |-> <<>>]

NotAList == [http |-> "ok", is_list |-> FALSE, items |-> <<>>]

ListOf(items) == [http |-> "ok", is_list |-> TRUE, items |-> items]

SeqsUpTo(S, n) == UNION {[1..k -> S] : k \in 0..n}

\* Catalog A version objects
ModrinthVersion(vn, date) == [is_dict |-> TRUE, version_number |-> vn, date_published |-> date]

NotADict == [is_dict |-> FALSE]

ModrinthItems ==
    {ModrinthVersion(vn, date) : vn \in {None, <<>>, V100, V110},
                                 date \in {Absent, Unparseable, Naive(1), Naive(2), Aware(1)}}
    \cup {NotADict}

ModrinthResponses ==
    {HttpFailure, NotAList} \cup {ListOf(items) : items \in SeqsUpTo(ModrinthItems, MaxVersions)}

\* Catalog B file objects; the file id is the file's position in the response
GameVersions(labels) == [is_list |-> TRUE, labels |-> labels]

NoGameVersions == [is_list |-> FALSE, labels |-> {}]

FileShape(gvs, date, fileName, displayName, id_is_int) ==
    [is_dict |-> TRUE, gameVersions |-> gvs,
     fileDate |-> date, fileName |-> fileName, displayName |-> displayName, id_is_int |-> id_is_int]

NotAFile ==
    [is_dict |-> FALSE, gameVersions |-> NoGameVersions, fileDate |-> Absent,
     fileName |-> None, displayName |-> None, id_is_int |-> FALSE]

ForgeFile == GameVersions({MinecraftVersion, "Forge"})

NameWith110 == <<"m", "-", "1", ".", "1", ".", "0">>

NameWith100 == <<"m", "-", "1", ".", "0", ".", "0">>

FileShapes ==
    {FileShape(gvs, date, NameWith100, None, TRUE) :
        gvs \in {NoGameVersions, ForgeFile, GameVersions({MinecraftVersion, "Fabric", "NeoForge"}),
                 GameVersions({"1.19.2", "Forge", "Fabric", "NeoForge"})},
        date \in {Absent, Unparseable, Naive(1), Aware(1)}}
    \cup {FileShape(ForgeFile, date, names[1], names[2], TRUE) :
            date \in {Absent, Naive(1)},
            names \in {<<NameWith110, None>>, <<None, NameWith110>>, <<None, None>>}}
    \cup {FileShape(ForgeFile, Naive(1), NameWith100, None, FALSE), NotAFile}

WithIds(shapes) == [i \in 1..Len(shapes) |-> [id |-> i] @@ shapes[i]]

CurseforgeResponses ==
    {HttpFailure, NotAList} \cup {ListOf(WithIds(shapes)) : shapes \in SeqsUpTo(FileShapes, MaxFiles)}

ResolveRanges ==
    { <<"*">>, <<">", "=", "1", ".", "1", ".", "0">>, V110, V110 \o <<" ">> \o V100 }

ModrinthDeps == {Dependency(<<"a">>, r, <<"m", "r">>, None) : r \in ResolveRanges}

CurseforgeDeps == {Dependency(<<"a">>, r, None, <<"1", "2">>) : r \in ResolveRanges}

ResolveInit ==
    /\ pc = "resolve_start"
    /\ dep \in ModrinthDeps \cup CurseforgeDeps
    /\ loader \in Loaders
    /\ policy \in Policies
    /\ response = NoResponse
    /\ result = NoResult
    /\ EngineIdle /\ MainIdle

CallModrinth ==
    /\ pc = "resolve_start"
    /\ Truthy(dep.modrinth)
    /\ \E resp \in ModrinthResponses :
         /\ response' = resp
         /\ result' = resolve_modrinth(dep, loader, MinecraftVersion, policy, resp)
    /\ requests' = Append(requests, [catalog |-> "modrinth", project |-> dep.modrinth])
    /\ pc' = "resolve_returned"
    /\ UNCHANGED <<range_str, version, constraints, sat, dep, loader, policy, deps, strict,
                   by_id, todo, resolved, out_file, exit_status>>

CallCurseforge ==
    /\ pc = "resolve_start"
    /\ ~Truthy(dep.modrinth)
    /\ Truthy(dep.curseforge)
    /\ IF CurseforgeSendsRequest(dep)
       THEN /\ \E resp \in CurseforgeResponses :
                 /\ response' = resp
                 /\ result' = resolve_curseforge(dep, loader, MinecraftVersion, policy, resp)
            /\ requests' = Append(requests, [catalog |-> "curseforge", project |-> dep.curseforge])
       ELSE /\ response' = NoResponse
            /\ result' = resolve_curseforge(dep, loader, MinecraftVersion, policy, NoResponse)
            /\ UNCHANGED requests
    /\ pc' = "resolve_returned"
    /\ UNCHANGED <<range_str, version, constraints, sat, dep, loader, policy, deps, strict,
                   by_id, todo, resolved, out_file, exit_status>>

ResolveNext == CallModrinth \/ CallCurseforge

SpecResolve == ResolveInit /\ [][ResolveNext]_vars

(***************************************************************************)
(* Definitions the claims about one resolver call share                    *)
(***************************************************************************)
ModrinthCallReturned == pc = "resolve_returned" /\ Truthy(dep.modrinth)

CurseforgeCallReturned == pc = "resolve_returned" /\ ~Truthy(dep.modrinth) /\ Truthy(dep.curseforge)

GotList == response.http = "ok" /\ response.is_list

\* the loader's display label as the specification gives it
DisplayLabel(ldr) == [forge |-> "Forge", neoforge |-> "NeoForge", fabric |-> "Fabric"][ldr]

HasBothLabels(f) ==
    /\ f.is_dict /\ f.gameVersions.is_list
    /\ MinecraftVersion \in f.gameVersions.labels
    /\ DisplayLabel(loader) \in f.gameVersions.labels

\* the candidates that survive filtering in the call the state records
Survivors ==
    IF Truthy(dep.modrinth)
    THEN SelectSeq(response.items,
                   LAMBDA v : /\ v.is_dict /\ v.version_number # None /\ v.version_number # <<>>
                              /\ satisfies_constraints(v.version_number, parse_constraints(dep.version_range)))
    ELSE LET compatible == SelectSeq(response.items, HasBothLabels)
             cs == parse_constraints(dep.version_range)
         IN  IF Len(cs) = 1 /\ cs[1].op = "="
             THEN SelectSeq(compatible, LAMBDA f : NameContains(f, cs[1].version))
             ELSE compatible

SurvivorDate(c) == IF Truthy(dep.modrinth) THEN c.date_published ELSE c.fileDate

\* published_at of a candidate: its timestamp, the oldest instant if it has none
PublishedAt(c) == IF SurvivorDate(c).kind \in {"naive", "aware"} THEN SurvivorDate(c).t ELSE 0

\* what the result says about a candidate being the chosen one
ResultIs(c) ==
    /\ result.status = "ok"
    /\ IF Truthy(dep.modrinth)
       THEN result.value.modrinth_version = c.version_number
       ELSE result.value.curseforge_file_id = ToStr(c.id)

(***************************************************************************)
(* C3: resolve_modrinth succeeds iff some returned version has a non-empty *)
(* string version_number satisfying every constraint of the range; the     *)
(* version_number it returns satisfies them; otherwise it fails with an    *)
(* error naming the dependency, alias, loader and runtime version.         *)
(***************************************************************************)
C3_SoundAndComplete ==
    (ModrinthCallReturned /\ GotList) =>
        /\ result.status = "ok" <=> Survivors # <<>>
        /\ result.status = "ok" =>
               satisfies_constraints(result.value.modrinth_version, parse_constraints(dep.version_range))
        /\ result.status # "ok" =>
               /\ result.error.kind = "NoModrinthVersions"
               /\ result.error.mod_id = dep.mod_id /\ result.error.alias = dep.modrinth
               /\ result.error.loader = loader /\ result.error.mc = MinecraftVersion

(***************************************************************************)
(* C4 as claimed: the returned candidate has the earliest published_at     *)
(* under min and the latest under max, and among candidates tied at that   *)
(* extreme it is the first in response order under either policy.          *)
(***************************************************************************)
C4_IsExtreme(cs, i) ==
    \A j \in 1..Len(cs) :
        IF policy = "min" THEN PublishedAt(cs[i]) <= PublishedAt(cs[j])
        ELSE PublishedAt(cs[i]) >= PublishedAt(cs[j])

C4_FirstExtreme(cs) == CHOOSE i \in 1..Len(cs) : C4_IsExtreme(cs, i) /\ \A j \in 1..(i - 1) : ~C4_IsExtreme(cs, j)

C4_LastExtreme(cs) == CHOOSE i \in 1..Len(cs) : C4_IsExtreme(cs, i) /\ \A j \in (i + 1)..Len(cs) : ~C4_IsExtreme(cs, j)

C4_FirstTiedUnderEitherPolicy ==
    (pc = "resolve_returned" /\ result.status = "ok") => ResultIs(Survivors[C4_FirstExtreme(Survivors)])

(***************************************************************************)
(* C4 amended: the returned candidate has the earliest published_at under  *)
(* min and the latest under max; among candidates tied at that extreme it  *)
(* is the first in response order under min and the last under max.        *)
(***************************************************************************)
C4_SelectionByPolicy ==
    (pc = "resolve_returned" /\ result.status = "ok") =>
        ResultIs(Survivors[IF policy = "min" THEN C4_FirstExtreme(Survivors) ELSE C4_LastExtreme(Survivors)])

C4_Witness ==
    /\ ModrinthCallReturned
    /\ policy = "max"
    /\ response.items = <<ModrinthVersion(V100, Naive(2)), ModrinthVersion(V110, Naive(2))>>
    /\ ResultIs(ModrinthVersion(V110, Naive(2)))

(***************************************************************************)
(* C5: resolve_curseforge only returns a file whose gameVersions holds     *)
(* both the runtime version and the loader's display label; when no file   *)
(* of the response has both it fails with the no-candidates error naming   *)
(* the dependency.                                                         *)
(***************************************************************************)
C5_LoaderAndRuntimeFilter ==
    CurseforgeCallReturned =>
        /\ result.status = "ok" =>
               \E i \in 1..Len(response.items) :
                   /\ ToStr(response.items[i].id) = result.value.curseforge_file_id
                   /\ HasBothLabels(response.items[i])
        /\ (GotList /\ \A i \in 1..Len(response.items) : ~HasBothLabels(response.items[i])) =>
               /\ result.status = "raise"
               /\ result.error.kind = "NoCurseforgeFiles"
               /\ result.error.mod_id = dep.mod_id

C5_Witness ==
    /\ CurseforgeCallReturned
    /\ loader = "neoforge"
    /\ Len(response.items) = 2
    /\ ~HasBothLabels(response.items[1])
    /\ response.items[1].gameVersions = ForgeFile
    /\ result.status = "ok"
    /\ result.value.curseforge_file_id = <<"2">>

(***************************************************************************)
(* C10: a surviving candidate whose timestamp is absent or unparseable     *)
(* does not make the resolution fail, and next to candidates with valid    *)
(* ISO-8601 timestamps it orders first: min returns it, max returns a      *)
(* candidate with a valid timestamp.                                       *)
(***************************************************************************)
C10_Undated(c) == SurvivorDate(c).kind \in {"absent", "unparseable"}

C10_MissingTimestampIsOldest ==
    (/\ pc = "resolve_returned" /\ GotList
     /\ \E i \in 1..Len(Survivors) : C10_Undated(Survivors[i])
     /\ \E i \in 1..Len(Survivors) : ~C10_Undated(Survivors[i])
     /\ \A i \in 1..Len(Survivors) : Survivors[i].is_dict /\ (Truthy(dep.modrinth) \/ Survivors[i].id_is_int))
    => /\ result.status = "ok"
       /\ policy = "min" => \E i \in 1..Len(Survivors) : C10_Undated(Survivors[i]) /\ ResultIs(Survivors[i])
       /\ policy = "max" => \E i \in 1..Len(Survivors) : ~C10_Undated(Survivors[i]) /\ ResultIs(Survivors[i])

(***************************************************************************)
(* Specification Spec: one run of main()                                   *)
(***************************************************************************)
MaxDeps == 2

MainIds == { <<"a">>, <<"A">> }

MainRecords ==
    {Dependency(id, <<"*">>, mr, cf) : id \in MainIds, mr \in {None, <<>>, <<"m", "r">>},
                                      cf \in {None, <<>>, <<"1", "2">>, <<"s", "l", "u", "g">>}}

\* a document left by an earlier run
StaleDocument == File(<< <<"stale">> >>)

MainModrinthResponses ==
    {HttpFailure, ListOf(<<>>), ListOf(<<ModrinthVersion(V110, Aware(1))>>)}

MainCurseforgeResponses ==
    {ListOf(<<>>), ListOf(WithIds(<<FileShape(ForgeFile, Aware(1), NameWith110, None, TRUE)>>))}

Init ==
    /\ pc = "main_start"
    /\ deps \in SeqsUpTo(MainRecords, MaxDeps)
    /\ strict \in BOOLEAN
    /\ loader = "forge"
    /\ policy = "max"
    /\ out_file \in {NoFile, StaleDocument}
    /\ by_id = <<>> /\ todo = <<>> /\ resolved = <<>> /\ requests = <<>>
    /\ exit_status = <<>>
    /\ EngineIdle /\ CallIdle

Normalize ==
    /\ pc = "main_start"
    /\ by_id' = Dedup(deps, <<>>)
    /\ todo' = SortById(by_id')
    /\ pc' = "main_resolving"
    /\ UNCHANGED <<range_str, version, constraints, sat, dep, loader, policy, response, result,
                   deps, strict, resolved, requests, out_file, exit_status>>

\* the rest of a loop iteration once the resolver returned or raised r
Continue(r) ==
    IF Aborts(r)
    THEN /\ pc' = "main_exited"
         /\ exit_status' = ExitOnError
         /\ UNCHANGED <<todo, resolved>>
    ELSE /\ todo' = Tail(todo)
         /\ resolved' = IF r.status = "ok" THEN Append(resolved, r.value) ELSE resolved
         /\ UNCHANGED <<pc, exit_status>>

ResolveModrinth ==
    /\ pc = "main_resolving"
    /\ todo # <<>>
    /\ CatalogFor(Head(todo)) = "modrinth"
    /\ dep' = Head(todo)
    /\ \E resp \in MainModrinthResponses :
         /\ response' = resp
         /\ result' = resolve_modrinth(Head(todo), loader, MinecraftVersion, policy, resp)
    /\ requests' = Append(requests, [catalog |-> "modrinth", project |-> Head(todo).modrinth])
    /\ Continue(result')
    /\ UNCHANGED <<range_str, version, constraints, sat, loader, policy, deps, strict, by_id,
                   out_file>>

ResolveCurseforge ==
    /\ pc = "main_resolving"
    /\ todo # <<>>
    /\ CatalogFor(Head(todo)) = "curseforge"
    /\ dep' = Head(todo)
    /\ IF CurseforgeSendsRequest(Head(todo))
       THEN /\ \E resp \in MainCurseforgeResponses :
                 /\ response' = resp
                 /\ result' = resolve_curseforge(Head(todo), loader, MinecraftVersion, policy, resp)
            /\ requests' = Append(requests, [catalog |-> "curseforge", project |-> Head(todo).curseforge])
       ELSE /\ response' = NoResponse
            /\ result' = resolve_curseforge(Head(todo), loader, MinecraftVersion, policy, NoResponse)
            /\ UNCHANGED requests
    /\ Continue(result')
    /\ UNCHANGED <<range_str, version, constraints, sat, loader, policy, deps, strict, by_id,
                   out_file>>

SkipUnaliased ==
    /\ pc = "main_resolving"
    /\ todo # <<>>
    /\ CatalogFor(Head(todo)) = "none"
    /\ ~strict
    /\ todo' = Tail(todo)
    /\ UNCHANGED <<pc, range_str, version, constraints, sat, dep, loader, policy, response,
                   result, deps, strict, by_id, resolved, requests, out_file, exit_status>>

StrictFail ==
    /\ pc = "main_resolving"
    /\ todo # <<>>
    /\ CatalogFor(Head(todo)) = "none"
    /\ strict
    /\ pc' = "main_exited"
    /\ exit_status' = ExitOnError
    /\ UNCHANGED <<range_str, version, constraints, sat, dep, loader, policy, response, result,
                   deps, strict, by_id, todo, resolved, requests, out_file>>

Write ==
    /\ pc = "main_resolving"
    /\ todo = <<>>
    /\ out_file' = File(write_dependencies_yml(resolved))
    /\ pc' = "main_exited"
    /\ exit_status' = ExitOk
    /\ UNCHANGED <<range_str, version, constraints, sat, dep, loader, policy, response, result,
                   deps, strict, by_id, todo, resolved, requests>>

Next ==
    \/ Normalize
    \/ ResolveModrinth
    \/ ResolveCurseforge
    \/ SkipUnaliased
    \/ StrictFail
    \/ Write

Spec == Init /\ [][Next]_vars

(***************************************************************************)
(* Definitions the claims about a run of main share                        *)
(***************************************************************************)
Untouched == out_file \in {NoFile, StaleDocument}

HasAlias(a) == a # None /\ Len(a) > 0

Unaliased(d) == ~HasAlias(d.modrinth) /\ ~HasAlias(d.curseforge)

PurelyNumeric(a) == Len(a) > 0 /\ \A i \in 1..Len(a) : a[i] \in Digits

\* the dependencies in resolve order, and those the loop has called a resolver
\* for or passed over: all before Head(todo), and Head(todo) if its resolver raised
InOrder == SortById(by_id)

Visited ==
    SubSeq(InOrder, 1, Len(InOrder) - Len(todo))
    \o (IF result.status = "raise" /\ todo # <<>> THEN <<Head(todo)>> ELSE <<>>)

(***************************************************************************)
(* C1: a run is all or nothing. When a resolver raises, or a dependency    *)
(* has no alias under --strict, the run exits with a non-zero status and   *)
(* the output document is neither created nor modified, however many       *)
(* dependencies were resolved before; the document is written only by a    *)
(* run that exits with status 0.                                           *)
(***************************************************************************)
C1_AllOrNothing ==
    /\ pc # "main_exited" => Untouched /\ exit_status = <<>> /\ result.status # "raise"
    /\ (/\ pc = "main_exited"
        /\ \/ result.status = "raise"
           \/ strict /\ \E i \in 1..Len(by_id) : Unaliased(by_id[i]))
       => exit_status # <<0>> /\ exit_status # <<>> /\ Untouched
    /\ ~Untouched => exit_status = <<0>> /\ todo = <<>>

C1_Witness ==
    /\ pc = "main_exited"
    /\ Len(resolved) = 1
    /\ result.status = "raise"
    /\ exit_status = <<2>>
    /\ out_file = StaleDocument

(***************************************************************************)
(* C2: per dependency the run asks Catalog A if the dependency has that    *)
(* alias, else Catalog B if it has that alias, never both; a dependency    *)
(* with neither alias fails the run under --strict and is left out of the  *)
(* output otherwise (a run whose only dependency has no alias writes       *)
(* "runtime: []" and exits 0).                                             *)
(***************************************************************************)
RECURSIVE C2_ExpectedRequests(_)
C2_ExpectedRequests(ds) ==
    IF ds = <<>> THEN <<>>
    ELSE (IF HasAlias(Head(ds).modrinth)
          THEN << [catalog |-> "modrinth", project |-> Head(ds).modrinth] >>
          ELSE IF HasAlias(Head(ds).curseforge) /\ PurelyNumeric(Head(ds).curseforge)
          THEN << [catalog |-> "curseforge", project |-> Head(ds).curseforge] >>
          ELSE <<>>)
         \o C2_ExpectedRequests(Tail(ds))

C2_Aliased == SelectSeq(InOrder, LAMBDA d : ~Unaliased(d))

C2_CatalogChoice ==
    pc \in {"main_resolving", "main_exited"} =>
        /\ requests = C2_ExpectedRequests(Visited)
        /\ (pc = "main_exited" /\ strict /\ \E i \in 1..Len(by_id) : Unaliased(by_id[i]))
               => exit_status = <<2>>
        /\ exit_status = <<0>> =>
               /\ Len(resolved) = Len(C2_Aliased)
               /\ \A i \in 1..Len(resolved) :
                      /\ resolved[i].name = C2_Aliased[i].mod_id
                      /\ resolved[i].source_type =
                             IF HasAlias(C2_Aliased[i].modrinth) THEN "modrinth" ELSE "curseforge"
               /\ C2_Aliased = <<>> => out_file = File(DocumentHeader \o << <<"    []">> >>)
               /\ C2_Aliased # <<>> => Len(out_file.lines) > Len(DocumentHeader) + 1

C2_Witness ==
    /\ pc = "main_exited"
    /\ ~strict
    /\ deps = << Dependency(<<"a">>, <<"*">>, None, None),
                 Dependency(<<"A">>, <<"*">>, <<"m", "r">>, <<"1", "2">>) >>
    /\ requests = << [catalog |-> "modrinth", project |-> <<"m", "r">>] >>
    /\ Len(resolved) = 1
    /\ exit_status = <<0>>

(***************************************************************************)
(* C6: a Catalog B alias that is not purely numeric makes                  *)
(* resolve_curseforge fail at once: no catalog request is issued for the   *)
(* dependency, and the run aborts with that error.                         *)
(***************************************************************************)
C6_NonNumericAliasFailsBeforeRequest ==
    (/\ pc \in {"main_resolving", "main_exited"}
     /\ dep # NoDependency
     /\ ~HasAlias(dep.modrinth) /\ HasAlias(dep.curseforge) /\ ~PurelyNumeric(dep.curseforge))
    => /\ result.status = "raise"
       /\ result.error.kind = "NonNumericAlias"
       /\ result.error.mod_id = dep.mod_id
       /\ response = NoResponse
       /\ \A i \in 1..Len(requests) :
              ~(requests[i].catalog = "curseforge" /\ requests[i].project = dep.curseforge)
       /\ Len(requests) = Len(resolved)
       /\ pc = "main_exited" /\ exit_status = <<2>> /\ Untouched

C6_Witness ==
    /\ pc = "main_exited"
    /\ dep.curseforge = <<"s", "l", "u", "g">>
    /\ result.status = "raise"
    /\ result.error.kind = "NonNumericAlias"
    /\ Len(requests) = 1
    /\ requests[1].catalog = "modrinth"

(***************************************************************************)
(* C7: after normalization there is exactly one Dependency per distinct id *)
(* (case-sensitive), and it is the first-seen record among those with the  *)
(* greatest count of non-null aliases for that id; an id extracted once    *)
(* without alias and once with one alias keeps the record with the alias.  *)
(***************************************************************************)
C7_AliasCount(d) == Cardinality({f \in {"modrinth", "curseforge"} : d[f] # None})

C7_Winner(id) ==
    LET same == {k \in 1..Len(deps) : deps[k].mod_id = id}
        best == {k \in same : \A j \in same : C7_AliasCount(deps[k]) >= C7_AliasCount(deps[j])}
    IN  deps[CHOOSE k \in best : \A j \in best : k <= j]

C7_Normalization ==
    pc # "main_start" =>
        /\ \A i \in 1..Len(by_id) : \E k \in 1..Len(deps) : deps[k].mod_id = by_id[i].mod_id
        /\ \A k \in 1..Len(deps) :
               /\ Cardinality({i \in 1..Len(by_id) : by_id[i].mod_id = deps[k].mod_id}) = 1
               /\ \E i \in 1..Len(by_id) : by_id[i] = C7_Winner(deps[k].mod_id)

C7_Witness ==
    /\ pc # "main_start"
    /\ deps = << Dependency(<<"a">>, <<"*">>, None, None),
                 Dependency(<<"a">>, <<"*">>, None, <<"1", "2">>) >>
    /\ by_id = << Dependency(<<"a">>, <<"*">>, None, <<"1", "2">>) >>

(***************************************************************************)
(* C11: in the comparator-token form parse_constraints yields one          *)
(* Constraint per token that is an optional comparator (>=, <=, >, <, =)   *)
(* followed by a version string; an empty token and a token that is only   *)
(* a comparator are skipped and contribute no Constraint.                  *)
(***************************************************************************)
C11_IsSeparator(c) == c = " " \/ c = ","

\* the non-empty tokens between whitespace and commas
RECURSIVE C11_Tokens(_, _)
C11_Tokens(s, cur) ==
    IF s = <<>> THEN (IF cur = <<>> THEN <<>> ELSE <<cur>>)
    ELSE IF C11_IsSeparator(Head(s))
         THEN (IF cur = <<>> THEN <<>> ELSE <<cur>>) \o C11_Tokens(Tail(s), <<>>)
         ELSE C11_Tokens(Tail(s), Append(cur, Head(s)))

\* the comparator a token starts with, "" if none
C11_Comparator(tok) ==
    IF Len(tok) >= 2 /\ tok[1] \in {">", "<"} /\ tok[2] = "=" THEN (IF tok[1] = ">" THEN ">=" ELSE "<=")
    ELSE IF Len(tok) >= 1 /\ tok[1] \in {">", "<", "="} THEN tok[1]
    ELSE ""

C11_ComparatorLen(tok) ==
    IF C11_Comparator(tok) \in {">=", "<="} THEN 2 ELSE IF C11_Comparator(tok) = "" THEN 0 ELSE 1

C11_TokenConstraints(tok) ==
    LET rest == SubSeq(tok, C11_ComparatorLen(tok) + 1, Len(tok))
    IN  IF rest = <<>> THEN <<>>
        ELSE << [op |-> IF C11_Comparator(tok) = "" THEN "=" ELSE C11_Comparator(tok),
                 version |-> rest] >>

RECURSIVE C11_Expected(_)
C11_Expected(toks) ==
    IF toks = <<>> THEN <<>> ELSE C11_TokenConstraints(Head(toks)) \o C11_Expected(Tail(toks))

C11_ComparatorForm ==
    /\ pc # "engine_start"
    /\ range_str \in ComparatorRanges
    /\ Strip(range_str) \notin {<<>>, <<"*">>}

C11_MalformedTokensSkipped ==
    C11_ComparatorForm => constraints = C11_Expected(C11_Tokens(range_str, <<>>))

(***************************************************************************)
(* C12: in resolve_curseforge, when the parsed constraint list is exactly  *)
(* one "=" constraint the chosen file is the policy's pick among the       *)
(* compatible files whose fileName or displayName contains the bound, and  *)
(* the call fails with the exact-range error when compatible files exist   *)
(* but none contains the bound; for any other constraint list the pick is  *)
(* made over all compatible files and the exact-range error never occurs.  *)
(***************************************************************************)
C12_Compatible == SelectSeq(response.items, HasBothLabels)

C12_Parsed == parse_constraints(Strip(dep.version_range))

C12_ExactlyOneEquals == Len(C12_Parsed) = 1 /\ C12_Parsed[1].op = "="

C12_HasBound(f) ==
    \/ Contains(TextOrEmpty(f.fileName), C12_Parsed[1].version)
    \/ Contains(TextOrEmpty(f.displayName), C12_Parsed[1].version)

C12_Pool == IF C12_ExactlyOneEquals THEN SelectSeq(C12_Compatible, C12_HasBound) ELSE C12_Compatible

C12_PickOver(pool) == pool[IF policy = "min" THEN C4_FirstExtreme(pool) ELSE C4_LastExtreme(pool)]

C12_ExactRangeFailure ==
    /\ result.status = "raise"
    /\ result.error.kind = "ExactRangeNotInNames"

C12_ExactRangeNarrowing ==
    (CurseforgeCallReturned /\ GotList /\ C12_Compatible # <<>>) =>
        /\ result.status = "ok" =>
               /\ C12_Pool # <<>>
               /\ ResultIs(C12_PickOver(C12_Pool))
        /\ (C12_ExactlyOneEquals /\ C12_Pool = <<>>) =>
               /\ C12_ExactRangeFailure
               /\ result.error.mod_id = dep.mod_id
               /\ result.error.version_range = dep.version_range
        /\ C12_ExactRangeFailure => (C12_ExactlyOneEquals /\ C12_Pool = <<>>)

C12_Witness ==
    /\ CurseforgeCallReturned
    /\ dep.version_range = V110
    /\ loader = "forge"
    /\ policy = "min"
    /\ response.items = WithIds(<<FileShape(ForgeFile, Absent, NameWith100, None, TRUE),
                                  FileShape(ForgeFile, Naive(1), None, NameWith110, TRUE)>>)
    /\ C12_ExactlyOneEquals
    /\ result.status = "ok"
    /\ result.value.curseforge_file_id = <<"2">>

====
